---- MODULE Spec2Model ----
(***************************************************************************)
(* Cellular automaton of an epidemic on a square grid (src/main.py).       *)
(* Probabilities are in percent; random.random() is a sample of 0..99.     *)
(* Points are <<x, y>>; a surface is indexed <<y, x>> as the numpy arrays. *)
(***************************************************************************)
EXTENDS Integers, Sequences, FiniteSets, TLC

\* Bounds of the model
ExtraTicks == 0

\* Parameters of the program that the scenarios do not vary (percent)
FAST_PROBABILITY == 20
STARTING_NUM_OF_SICK == 4
INFECTION_MULTIPLIER == 5
EMPTY == -1

VARIABLES
    ARR_SIZE,               \* grid side (AUTOMAT_SIZE)
    NUM_OF_PEOPLE,          \* requested population
    SICKNESS_LENGTH,        \* countdown set by infect
    INFECTION_PROBABILITY,  \* base infection probability, percent
    INFECTION_THRESHOLD,    \* in hundredths of a person
    automatic,              \* the type of run
    persons,                \* 0..n-1 -> Person
    curr_surface,
    next_surface,
    num_of_infected_people,
    current_iteration,
    history,
    pc,                     \* "idle", "updating", "failed"
    person_index,           \* cursor of `for person in persons`
    inner,                  \* cursor of `for _ in range(10)`
    committed,              \* persons as they were at the last commit
    targets                 \* person -> the watched points it moved into this tick

vars == <<ARR_SIZE, NUM_OF_PEOPLE, SICKNESS_LENGTH, INFECTION_PROBABILITY,
          INFECTION_THRESHOLD, automatic,
          persons, curr_surface, next_surface, num_of_infected_people,
          current_iteration, history, pc, person_index, inner, committed,
          targets>>

config == <<ARR_SIZE, NUM_OF_PEOPLE, SICKNESS_LENGTH, INFECTION_PROBABILITY,
            INFECTION_THRESHOLD, automatic>>

\* The points of the grid whose entries are recorded in targets
Watched == {<<0, 0>>}

\* The value of sickness_countdown before infect has ever set it
NoCountdown == SICKNESS_LENGTH + 1

MOVEMENTS == {<<x, y>> : x \in -1..1, y \in -1..1}

Max(a, b) == IF a > b THEN a ELSE b
Min(a, b) == IF a < b THEN a ELSE b

\* random.random() < probability, over every sample of [0, 1)
chance(probability) == {sample < probability : sample \in 0..99}

\* numpy indexing: a negative index counts from the end
index(i) == IF i < 0 THEN i + ARR_SIZE ELSE i
at(surface, y, x) == surface[<<index(y), index(x)>>]

people == DOMAIN persons

infected_late(person) ==
    [person EXCEPT !.has_been_sick = TRUE,
                   !.sickness_countdown = SICKNESS_LENGTH + 1,
                   !.is_healthy = FALSE]

\* Person.infect on success
infected(person) ==
    [person EXCEPT !.has_been_sick = TRUE,
                   !.sickness_countdown = SICKNESS_LENGTH,
                   !.is_healthy = FALSE]

\* Person.__init__: the outcomes of the creation roll
Person(position, is_fast, sick) ==
    LET fresh == [position |-> position, is_fast |-> is_fast,
                  has_been_sick |-> FALSE, is_healthy |-> TRUE,
                  sickness_countdown |-> NoCountdown]
    IN IF sick THEN infected(fresh) ELSE fresh

Injective(f) == \A a, b \in DOMAIN f : a # b => f[a] # f[b]

init_persons_clipped(surface_size, num_of_people, infection_probability) ==
    LET points == {<<x, y>> : x \in 0..surface_size - 1, y \in 0..surface_size - 1}
        ids == 0..Min(num_of_people, Cardinality(points)) - 1
    IN {[ok |-> TRUE,
         people |-> [i \in ids |-> Person(loc[i], fast[i], sick[i])]] :
           loc \in {f \in [ids -> points] : Injective(f)},
           fast \in [ids -> chance(FAST_PROBABILITY)],
           sick \in [ids -> chance(infection_probability)]}

\* init_persons: random.sample raises when the population exceeds the points
init_persons(surface_size, num_of_people, infection_probability) ==
    LET points == {<<x, y>> : x \in 0..surface_size - 1, y \in 0..surface_size - 1}
        ids == 0..num_of_people - 1
    IN IF num_of_people > Cardinality(points)
       THEN {[ok |-> FALSE, people |-> <<>>]}
       ELSE {[ok |-> TRUE,
              people |-> [i \in ids |-> Person(loc[i], fast[i], sick[i])]] :
                loc \in {f \in [ids -> points] : Injective(f)},
                fast \in [ids -> chance(FAST_PROBABILITY)],
                sick \in [ids -> chance(infection_probability)]}

\* Map.__init__
Map(map_size, ps) ==
    [c \in (0..map_size - 1) \X (0..map_size - 1) |->
        IF \E i \in DOMAIN ps : ps[i].position = <<c[2], c[1]>>
        THEN CHOOSE i \in DOMAIN ps : ps[i].position = <<c[2], c[1]>>
        ELSE EMPTY]

NumInfected(ps) == Cardinality({i \in DOMAIN ps : ~ps[i].is_healthy})

InitWith(configs) ==
    /\ \E c \in configs :
        /\ ARR_SIZE = c.size
        /\ NUM_OF_PEOPLE = c.people
        /\ SICKNESS_LENGTH = c.length
        /\ INFECTION_PROBABILITY = c.probability
        /\ INFECTION_THRESHOLD = c.fraction * c.people
        /\ automatic = c.automatic
    /\ \E r \in init_persons(ARR_SIZE, NUM_OF_PEOPLE, STARTING_NUM_OF_SICK) :
        /\ persons = r.people
        /\ pc = IF r.ok THEN "idle" ELSE "failed"
        /\ curr_surface = IF r.ok THEN Map(ARR_SIZE, r.people) ELSE <<>>
        /\ next_surface = curr_surface
        /\ num_of_infected_people = NumInfected(r.people)
    /\ current_iteration = 0
    /\ history = <<>>
    /\ person_index = 0
    /\ inner = 0
    /\ committed = persons
    /\ targets = [i \in people |-> {}]

in_bounds_upper(point) ==
    point[1] < ARR_SIZE /\ point[2] < ARR_SIZE

\* Map.in_bounds
in_bounds(point) ==
    /\ 0 <= point[1] /\ point[1] < ARR_SIZE
    /\ 0 <= point[2] /\ point[2] < ARR_SIZE

is_occupied_next(point) ==
    IF ~in_bounds(point) THEN TRUE
    ELSE at(next_surface, point[2], point[1]) # EMPTY

is_occupied_curr(point) ==
    IF ~in_bounds(point) THEN TRUE
    ELSE at(curr_surface, point[2], point[1]) # EMPTY

\* Map.is_occupied
is_occupied(point) ==
    IF ~in_bounds(point) THEN TRUE
    ELSE \/ at(curr_surface, point[2], point[1]) # EMPTY
         \/ at(next_surface, point[2], point[1]) # EMPTY

\* Map.get_legal_movements
get_legal_movements(person) ==
    {m \in MOVEMENTS :
        ~is_occupied(<<person.position[1] + m[1], person.position[2] + m[2]>>)}

\* The cells Map.has_infected_neighbor scans, as <<i, j>> = <<row, column>>
neighborhood(person) ==
    LET x == person.position[1]
        y == person.position[2]
        x_min == Max(x - 1, 0)
        x_max == Min(x + 1, ARR_SIZE - 1)
        y_min == Max(y - 1, 0)
        y_max == Min(y + 1, ARR_SIZE - 1)
    IN (y_min..y_max) \X (x_min..x_max)

has_sick_neighbor(person) ==
    \E c \in neighborhood(person) :
        LET pi == at(curr_surface, c[1], c[2])
        IN pi >= 0 /\ persons[pi].has_been_sick

\* Map.has_infected_neighbor
has_infected_neighbor(person) ==
    \E c \in neighborhood(person) :
        LET pi == at(curr_surface, c[1], c[2])
        IN pi >= 0 /\ ~persons[pi].is_healthy

\* Map.move_person: the next buffer after the move
move_surface(person, movement) ==
    LET old == <<index(person.position[2]), index(person.position[1])>>
        new == <<index(person.position[2] + movement[2]),
                 index(person.position[1] + movement[1])>>
        s1 == [next_surface EXCEPT ![new] = next_surface[old]]
    IN [s1 EXCEPT ![old] = EMPTY]

\* Map.move_person: the person after the move
move_person(person, movement) ==
    [person EXCEPT !.position = <<person.position[1] + movement[1],
                                  person.position[2] + movement[2]>>]

infection_probability_early ==
    IF 100 * num_of_infected_people >= INFECTION_THRESHOLD
    THEN INFECTION_PROBABILITY
    ELSE INFECTION_PROBABILITY * INFECTION_MULTIPLIER

\* The probability inner_update hands to infect
infection_probability ==
    IF 100 * num_of_infected_people > INFECTION_THRESHOLD
    THEN INFECTION_PROBABILITY
    ELSE INFECTION_PROBABILITY * INFECTION_MULTIPLIER

health_update_below(person) ==
    IF ~person.has_been_sick
    THEN IF has_infected_neighbor(person)
         THEN {IF roll THEN <<infected(person), num_of_infected_people + 1>>
                       ELSE <<person, num_of_infected_people>> :
                 roll \in chance(infection_probability)}
         ELSE {<<person, num_of_infected_people>>}
    ELSE LET p1 == [person EXCEPT !.sickness_countdown = @ - 1]
         IN IF p1.sickness_countdown <= 0
            THEN {<<[p1 EXCEPT !.is_healthy = TRUE], num_of_infected_people - 1>>}
            ELSE {<<p1, num_of_infected_people>>}

health_update_keep(person) ==
    IF ~person.has_been_sick
    THEN IF has_infected_neighbor(person)
         THEN {IF roll THEN <<infected(person), num_of_infected_people + 1>>
                       ELSE <<person, num_of_infected_people>> :
                 roll \in chance(infection_probability)}
         ELSE {<<person, num_of_infected_people>>}
    ELSE LET p1 == [person EXCEPT !.sickness_countdown = @ - 1]
         IN IF p1.sickness_countdown = 0
            THEN {<<[p1 EXCEPT !.is_healthy = TRUE], num_of_infected_people>>}
            ELSE {<<p1, num_of_infected_people>>}

health_update_again(person) ==
    IF person.is_healthy
    THEN IF has_infected_neighbor(person)
         THEN {IF roll THEN <<infected(person), num_of_infected_people + 1>>
                       ELSE <<person, num_of_infected_people>> :
                 roll \in chance(infection_probability)}
         ELSE {<<person, num_of_infected_people>>}
    ELSE LET p1 == [person EXCEPT !.sickness_countdown = @ - 1]
         IN IF p1.sickness_countdown = 0
            THEN {<<[p1 EXCEPT !.is_healthy = TRUE], num_of_infected_people - 1>>}
            ELSE {<<p1, num_of_infected_people>>}

\* Person.inner_update, health part: the outcomes <<person, counter>>
health_update(person) ==
    IF ~person.has_been_sick
    THEN IF has_infected_neighbor(person)
         THEN {IF roll THEN <<infected(person), num_of_infected_people + 1>>
                       ELSE <<person, num_of_infected_people>> :
                 roll \in chance(infection_probability)}
         ELSE {<<person, num_of_infected_people>>}
    ELSE LET p1 == [person EXCEPT !.sickness_countdown = @ - 1]
         IN IF p1.sickness_countdown = 0
            THEN {<<[p1 EXCEPT !.is_healthy = TRUE], num_of_infected_people - 1>>}
            ELSE {<<p1, num_of_infected_people>>}

move_outcomes_zero(person) ==
    LET legal_movements == get_legal_movements(person)
    IN IF legal_movements # {}
       THEN {<<move_person(person, movement), move_surface(person, movement)>> :
               movement \in legal_movements}
       ELSE {<<move_person(person, <<0, 0>>), move_surface(person, <<0, 0>>)>>}

\* Person.inner_update, movement part: the outcomes <<person, next buffer>>
move_outcomes(person) ==
    LET legal_movements == get_legal_movements(person)
    IN IF legal_movements # {}
       THEN {<<move_person(person, movement), move_surface(person, movement)>> :
               movement \in legal_movements}
       ELSE {<<person, next_surface>>}

repetitions_swapped(person) == IF person.is_fast THEN 1 ELSE 10

\* Person.update: how many inner updates the person gets in a tick
repetitions(person) == IF person.is_fast THEN 10 ELSE 1

\* The callers of apply_iteration: the SPACE key of a manual run, at most
\* SICKNESS_LENGTH + ExtraTicks times, or the loop of an automatic run while
\* more than 1% of the people are infected, for as many ticks as the people
\* can take to recover one after the other (and ExtraTicks more)
may_step ==
    IF automatic
    THEN /\ 100 * num_of_infected_people > NUM_OF_PEOPLE
         /\ current_iteration < NUM_OF_PEOPLE * SICKNESS_LENGTH + ExtraTicks
    ELSE current_iteration < SICKNESS_LENGTH + ExtraTicks

apply_iteration_stale ==
    /\ pc = "idle"
    /\ may_step
    /\ current_iteration' = current_iteration + 1
    /\ curr_surface' = curr_surface
    /\ history' = Append(history, num_of_infected_people)
    /\ committed' = persons
    /\ targets' = [i \in people |-> {}]
    /\ pc' = IF people = {} THEN "idle" ELSE "updating"
    /\ person_index' = 0
    /\ inner' = 0
    /\ UNCHANGED <<config, persons, next_surface, num_of_infected_people>>

apply_iteration_assign ==
    /\ pc = "idle"
    /\ may_step
    /\ current_iteration' = current_iteration + 1
    /\ curr_surface' = next_surface
    /\ history' = <<num_of_infected_people>>
    /\ committed' = persons
    /\ targets' = [i \in people |-> {}]
    /\ pc' = IF people = {} THEN "idle" ELSE "updating"
    /\ person_index' = 0
    /\ inner' = 0
    /\ UNCHANGED <<config, persons, next_surface, num_of_infected_people>>

\* apply_iteration up to the first person.update
apply_iteration ==
    /\ pc = "idle"
    /\ may_step
    /\ current_iteration' = current_iteration + 1
    /\ curr_surface' = next_surface
    /\ history' = Append(history, num_of_infected_people)
    /\ committed' = persons
    /\ targets' = [i \in people |-> {}]
    /\ pc' = IF people = {} THEN "idle" ELSE "updating"
    /\ person_index' = 0
    /\ inner' = 0
    /\ UNCHANGED <<config, persons, next_surface, num_of_infected_people>>

\* One Person.inner_update of the person under the loop cursor
inner_update(self) ==
    /\ pc = "updating"
    /\ person_index = self
    /\ \E h \in health_update(persons[self]) :
        \E m \in move_outcomes(h[1]) :
            /\ num_of_infected_people' = h[2]
            /\ persons' = [persons EXCEPT ![self] = m[1]]
            /\ next_surface' = m[2]
            /\ targets' = [targets EXCEPT ![self] =
                              @ \cup (({m[1].position} \ {h[1].position}) \cap Watched)]
    /\ IF inner + 1 < repetitions(persons[self])
       THEN /\ inner' = inner + 1
            /\ person_index' = person_index
            /\ pc' = pc
       ELSE /\ inner' = 0
            /\ IF self + 1 \in people
               THEN person_index' = self + 1 /\ pc' = pc
               ELSE person_index' = 0 /\ pc' = "idle"
    /\ UNCHANGED <<config, curr_surface, current_iteration, history, committed>>

Next ==
    \/ apply_iteration
    \/ \E self \in people : inner_update(self)

\* Two people on a 3 x 3 grid, and two neighbours on a 2 x 2 grid that may
\* also run with base infection probability 1.0, or with 0.2 and a threshold
\* of 0.2 or 0.5 of the population
Configurations ==
    [size : {3}, people : 0..2, length : {1}, probability : {10},
     fraction : {20}, automatic : {FALSE}]
    \cup [size : {2}, people : {2}, length : {1, 2}, probability : {10, 100},
          fraction : {20}, automatic : {FALSE}]
    \cup [size : {2}, people : {2}, length : {1}, probability : {20},
          fraction : {20, 50}, automatic : {FALSE}]

\* A 2 x 2 grid that is full or too small for the population
FullConfigurations ==
    [size : {2}, people : {4, 5}, length : {2}, probability : {100},
     fraction : {20}, automatic : {FALSE}]

\* One person alone on a 3 x 3 grid
SingleConfigurations ==
    [size : {3}, people : {1}, length : 1..5, probability : {10},
     fraction : {20}, automatic : {FALSE}]

\* An automatic run of one or two people on a 2 x 2 grid
AutomaticConfigurations ==
    [size : {2}, people : {1, 2}, length : {1, 2}, probability : {10},
     fraction : {20}, automatic : {TRUE}]

Init == InitWith(Configurations)
InitFull == InitWith(FullConfigurations)
InitSingle == InitWith(SingleConfigurations)
InitAutomatic == InitWith(AutomaticConfigurations)

Spec == Init /\ [][Next]_vars
SpecFull == InitFull /\ [][Next]_vars
SpecSingle == InitSingle /\ [][Next]_vars

\* The loop of the automatic run keeps stepping, and a step always completes
SpecAutomatic == InitAutomatic /\ [][Next]_vars /\ WF_vars(Next)

----------------------------------------------------------------------------
\* Vocabulary of the properties

Susceptible(person) == ~person.has_been_sick
Infected(person) == ~person.is_healthy
Recovered(person) == person.has_been_sick /\ person.is_healthy

\* The commit has run and no person has been updated since
JustCommitted == pc = "updating" /\ person_index = 0 /\ inner = 0

TickDone == pc = "idle" /\ current_iteration >= 1

Cells == (0..ARR_SIZE - 1) \X (0..ARR_SIZE - 1)

\* c2 is one of the 8 points around c1
Adjacent(c1, c2) ==
    /\ c1 # c2
    /\ c1[1] - c2[1] \in -1..1
    /\ c1[2] - c2[2] \in -1..1

Corner(point) ==
    point[1] \in {0, ARR_SIZE - 1} /\ point[2] \in {0, ARR_SIZE - 1}

\* The buffer that holds exactly the persons at their recorded positions
Placed(ps) ==
    [c \in Cells |->
        IF \E i \in DOMAIN ps : ps[i].position = <<c[2], c[1]>>
        THEN CHOOSE i \in DOMAIN ps : ps[i].position = <<c[2], c[1]>>
        ELSE EMPTY]

----------------------------------------------------------------------------
\* C1: in every state no two persons have the same position, every person's
\* position is a cell of the grid, and the next buffer holds person i's index
\* exactly at person i's position and EMPTY elsewhere (so it does at the end
\* of every tick); right after a commit the current buffer does too.
C1_Bijection ==
    pc # "failed" =>
        /\ \A i, j \in people : i # j => persons[i].position # persons[j].position
        /\ \A i \in people : <<persons[i].position[2], persons[i].position[1]>> \in Cells
        /\ next_surface = Placed(persons)
        /\ (JustCommitted \/ current_iteration = 0) => curr_surface = Placed(persons)

C1_Witness ==
    /\ pc = "idle"
    /\ current_iteration = 2
    /\ Cardinality(people) = 2
    /\ \A i \in people : persons[i].position # committed[i].position
    /\ \E i \in people : Adjacent(persons[i].position, committed[1 - i].position)

\* C2: in every state the global counter is the number of persons that are
\* Infected (is_healthy = FALSE).
C2_CounterMatches ==
    num_of_infected_people = Cardinality({i \in people : ~persons[i].is_healthy})

C2_Witness ==
    /\ pc = "updating"
    /\ num_of_infected_people = 1
    /\ \E i, j \in people :
        /\ Susceptible(committed[i]) /\ Infected(persons[i])
        /\ Infected(committed[j]) /\ Recovered(persons[j])

\* C3: a step changes a person's health only from Susceptible to Infected or
\* from Infected to Recovered; has_been_sick is never reset and a Recovered
\* person is never Infected again.
C3_Monotonic ==
    [][\A i \in people :
        /\ Susceptible(persons[i]) => (Susceptible(persons[i]') \/ Infected(persons[i]'))
        /\ Infected(persons[i]) =>
              /\ persons[i].has_been_sick
              /\ Infected(persons[i]') \/ Recovered(persons[i]')
        /\ Recovered(persons[i]) => Recovered(persons[i]')]_vars

C3_Witness ==
    \E i, j \in people :
        /\ i # j
        /\ Susceptible(committed[i]) /\ Recovered(persons[i])
        /\ Infected(persons[j])
        /\ Adjacent(persons[i].position, persons[j].position)

\* C4: at every inner update the zero offset is among the legal movements of
\* the person being updated.
C4_StayIsLegal ==
    pc = "updating" => <<0, 0>> \in get_legal_movements(persons[person_index])

\* C5: when at the commit of a tick a Susceptible person stood in one of the
\* 8 cells around an Infected person and the base infection probability is
\* 1.0, the Susceptible person has been infected by the end of that tick
\* (it is Infected, or Recovered again after a short countdown).
C5_ExposedGetsInfected ==
    (TickDone /\ INFECTION_PROBABILITY >= 100) =>
        \A s, i \in people :
            (/\ Susceptible(committed[s])
             /\ Infected(committed[i])
             /\ Adjacent(committed[s].position, committed[i].position))
            => persons[s].has_been_sick

\* C6: a person alone on the grid that was infected at creation is Recovered
\* once SICKNESS_LENGTH ticks are complete, and the counter is then 0.
C6_LoneRecovers ==
    (/\ Cardinality(people) = 1
     /\ pc = "idle"
     /\ current_iteration >= SICKNESS_LENGTH
     /\ persons[0].has_been_sick)
    => Recovered(persons[0]) /\ num_of_infected_people = 0

C6_Witness ==
    /\ ARR_SIZE = 3
    /\ SICKNESS_LENGTH = 5
    /\ pc = "idle"
    /\ history = <<1, 1, 1, 1, 1>>
    /\ Recovered(persons[0])
    /\ num_of_infected_people = 0

\* C7: an inner update of a person that has no legal movement leaves the
\* person's position and both buffers unchanged, and on a grid whose every
\* cell is taken no step changes any position.
C7_NoLegalMovementStays ==
    [][/\ (pc = "updating" /\ get_legal_movements(persons[person_index]) = {}) =>
            /\ persons'[person_index].position = persons[person_index].position
            /\ next_surface' = next_surface
            /\ curr_surface' = curr_surface
       /\ (pc # "failed" /\ NUM_OF_PEOPLE = ARR_SIZE * ARR_SIZE) =>
            \A i \in people : persons'[i].position = persons[i].position]_vars

C7_Witness ==
    /\ ARR_SIZE = 2
    /\ Cardinality(people) = 4
    /\ pc = "idle"
    /\ current_iteration = 2
    /\ curr_surface = Placed(persons)

\* C8: every position is within [0, N) in both coordinates; every point
\* outside the grid is occupied; the cells scanned for exposure are cells of
\* the grid; and a person at a corner has at most 3 cells around it scanned
\* for exposure and at most 3 legal movements.
C8_NoWrapAround ==
    pc # "failed" =>
        /\ \A x, y \in -1..ARR_SIZE :
              <<y, x>> \notin Cells => is_occupied(<<x, y>>)
        /\ \A i \in people :
              LET p == persons[i]
                  own == <<p.position[2], p.position[1]>>
              IN /\ p.position[1] \in 0..ARR_SIZE - 1
                 /\ p.position[2] \in 0..ARR_SIZE - 1
                 /\ neighborhood(p) \subseteq Cells
                 /\ \A c \in neighborhood(p) : c = own \/ Adjacent(c, own)
                 /\ \A m \in get_legal_movements(p) :
                       <<p.position[2] + m[2], p.position[1] + m[1]>> \in Cells
                 /\ Corner(p.position) =>
                       /\ Cardinality(neighborhood(p) \ {own}) <= 3
                       /\ Cardinality(get_legal_movements(p)) <= 3

C8_Witness ==
    /\ ARR_SIZE = 3
    /\ pc = "updating"
    /\ current_iteration = 1
    /\ persons[person_index].position = <<2, 0>>
    /\ Corner(committed[person_index].position)
    /\ committed[person_index].position # <<2, 0>>
    /\ Cardinality(get_legal_movements(persons[person_index])) = 2

\* C9: history has one entry per tick (its length is current_iteration), a
\* step leaves it alone or appends one entry to it, and the entry appended is
\* the infected count at the commit, before any person of the tick is updated.
C9_HistoryAppendOnly ==
    /\ [](Len(history) = current_iteration)
    /\ [][\/ history' = history
          \/ /\ JustCommitted' \/ people = {}
             /\ current_iteration' = current_iteration + 1
             /\ history' = Append(history, num_of_infected_people')
             /\ num_of_infected_people' =
                   Cardinality({i \in people : Infected(persons'[i])})]_vars

C9_Witness ==
    /\ Len(history) = 2
    /\ current_iteration = 2
    /\ history[1] = 1
    /\ history[2] = 2

\* C10: a population larger than the number of cells fails in init_persons:
\* no person exists, the counter is 0 and no tick ever runs.
C10_TooManyPeopleFails ==
    NUM_OF_PEOPLE > ARR_SIZE * ARR_SIZE =>
        /\ pc = "failed"
        /\ people = {}
        /\ num_of_infected_people = 0
        /\ current_iteration = 0
        /\ history = <<>>
        /\ ~ENABLED Next

C10_Witness ==
    NUM_OF_PEOPLE = 5 /\ ARR_SIZE = 2 /\ pc = "failed"

\* C12: every step that changes a person's position takes it to a cell of
\* the grid that was EMPTY in the current buffer and EMPTY in the next buffer
\* before the step, hence to no cell that any person (itself included) held
\* at the tick's commit; and afterwards the next buffer still holds every
\* person's index in exactly one cell.
C12_MovesIntoFreeCells ==
    [][\A i \in people :
        persons'[i].position # persons[i].position =>
            LET dest == <<persons'[i].position[2], persons'[i].position[1]>>
            IN /\ dest \in Cells
               /\ curr_surface[dest] = EMPTY
               /\ next_surface[dest] = EMPTY
               /\ \A j \in people : committed[j].position # persons'[i].position
               /\ \A k \in people :
                     Cardinality({c \in Cells : next_surface'[c] = k}) = 1]_vars

C12_Witness ==
    /\ pc = "updating"
    /\ inner = 2
    /\ Cardinality(people) = 2
    /\ persons[person_index].position # committed[person_index].position
    /\ Adjacent(persons[person_index].position, committed[person_index].position)

\* C13 as claimed: within one tick no two distinct persons move into the
\* same destination cell.
C13_NoSharedTarget ==
    \A i, j \in people : i # j => targets[i] \cap targets[j] = {}

\* C13 as amended: when two distinct persons have moved into the same cell
\* within one tick, the one updated first is a fast person that has left the
\* cell again; two normal persons never move into the same cell in one tick.
C13_SharedTargetOnlyAfterLeaving ==
    \A i, j \in people :
        \A c \in targets[i] \cap targets[j] :
            i < j => persons[i].is_fast /\ persons[i].position # c

C13_Witness ==
    /\ pc = "updating"
    /\ person_index = 1
    /\ persons[1].position \in targets[0] \cap targets[1]
    /\ persons[0].position # persons[1].position

\* C14: at every inner update of a never-sick person, has_infected_neighbor
\* answers from the health the neighbouring persons had at the tick's commit.
C14_ExposureFromCommit ==
    (pc = "updating" /\ Susceptible(persons[person_index])) =>
        (has_infected_neighbor(persons[person_index])
         <=> \E c \in neighborhood(persons[person_index]) :
                /\ curr_surface[c] # EMPTY
                /\ Infected(committed[curr_surface[c]]))

\* C15: the step that starts a tick makes the current buffer equal to the
\* next buffer before any person is updated; every other step leaves the
\* current buffer alone, and an inner update changes no position but that of
\* the person being updated.
C15_CommitFirst ==
    [][/\ (pc = "idle" /\ pc' # "idle") =>
            /\ curr_surface' = next_surface
            /\ next_surface' = next_surface
            /\ persons' = persons
            /\ JustCommitted'
       /\ current_iteration' # current_iteration =>
            curr_surface' = next_surface'
       /\ pc = "updating" =>
            /\ curr_surface' = curr_surface
            /\ \A i \in people \ {person_index} :
                  persons'[i].position = persons[i].position]_vars

C15_Witness ==
    /\ pc = "updating"
    /\ inner = 9
    /\ current_iteration = 2
    /\ curr_surface # next_surface
    /\ curr_surface = Placed(committed)

\* C16: a step makes a person Infected only if it is the person being
\* updated, it has never been sick, and the current buffer holds, in a cell
\* of the grid at most one row and one column from its position, a person
\* that is Infected at that moment.
C16_InfectionNeedsInfectedNeighbor ==
    [][\A i \in people :
        (~Infected(persons[i]) /\ Infected(persons'[i])) =>
            /\ pc = "updating" /\ person_index = i
            /\ ~persons[i].has_been_sick
            /\ \E k \in people, c \in Cells :
                  /\ curr_surface[c] = k
                  /\ c[1] - persons[i].position[2] \in -1..1
                  /\ c[2] - persons[i].position[1] \in -1..1
                  /\ Infected(persons[k])]_vars

\* On the 3 x 3 grid a person was infected in this tick by the only other one
C16_Witness ==
    /\ ARR_SIZE = 3
    /\ Cardinality(people) = 2
    /\ pc = "updating"
    /\ Susceptible(committed[0])
    /\ Infected(persons[0])
    /\ Infected(persons[1])
    /\ Adjacent(committed[0].position, persons[1].position)
    /\ ~Adjacent(persons[0].position, persons[1].position)

\* C17: when a never-sick person with an infected neighbour is updated, the
\* probability of the trial is the base probability if the counter at that
\* moment is strictly above the threshold and the base times the multiplier
\* otherwise (the counter equal to the threshold included): a probability of
\* at least 1.0 always infects, a probability of 0 never does.
C17_ProbabilityRule ==
    [][(/\ pc = "updating"
        /\ Susceptible(persons[person_index])
        /\ has_infected_neighbor(persons[person_index])) =>
            LET used == IF 100 * num_of_infected_people > INFECTION_THRESHOLD
                        THEN INFECTION_PROBABILITY
                        ELSE INFECTION_PROBABILITY * INFECTION_MULTIPLIER
            IN /\ used >= 100 => Infected(persons'[person_index])
               /\ used <= 0 => Susceptible(persons'[person_index])]_vars

\* Base probability 0.2, the counter equal to the threshold of one person at
\* the trial: the exposed person was infected
C17_Witness ==
    /\ INFECTION_PROBABILITY = 20
    /\ INFECTION_THRESHOLD = 100
    /\ TickDone
    /\ history = <<1>>
    /\ Susceptible(committed[0])
    /\ ~persons[0].is_fast
    /\ Infected(persons[0])
    /\ Recovered(persons[1])

\* C18: an Infected person's countdown is above 0; a step brings a countdown
\* to 0 only in turning an Infected person Recovered, and only so does a
\* person stop being Infected; that step lowers the counter by one and
\* nothing else ever lowers it; a countdown that has reached 0 only goes
\* further down, so it is 0 once.
C18_CountdownZeroOnce ==
    /\ [](\A i \in people :
            Infected(persons[i]) => persons[i].sickness_countdown > 0)
    /\ [][/\ \A i \in people :
                LET a == persons[i].sickness_countdown
                    b == persons'[i].sickness_countdown
                IN /\ (b = 0 /\ a # 0) =>
                        /\ Infected(persons[i]) /\ Recovered(persons'[i])
                        /\ num_of_infected_people' = num_of_infected_people - 1
                   /\ (Infected(persons[i]) /\ ~Infected(persons'[i])) =>
                        a = 1 /\ b = 0
                   /\ (persons[i].has_been_sick /\ a <= 0) => (b = a \/ b < 0)
          /\ num_of_infected_people' < num_of_infected_people =>
                /\ num_of_infected_people' = num_of_infected_people - 1
                /\ Cardinality({i \in people :
                        Infected(persons[i]) /\ Recovered(persons'[i])}) = 1]_vars

C18_Witness ==
    /\ TickDone
    /\ history = <<2>>
    /\ num_of_infected_people = 0
    /\ \E i \in people : persons[i].sickness_countdown < -3
    /\ \E i \in people : persons[i].sickness_countdown = 0

\* C19 as claimed: over one tick the countdown of every person that was
\* Infected at the commit drops by exactly one and the person stays Infected
\* unless the countdown was 1; a person infected in the tick ends it Infected
\* with the countdown SICKNESS_LENGTH.
C19_CountdownCountsTicks ==
    TickDone =>
        \A i \in people :
            /\ Infected(committed[i]) =>
                  /\ persons[i].sickness_countdown =
                        committed[i].sickness_countdown - 1
                  /\ Infected(persons[i]) <=> committed[i].sickness_countdown > 1
            /\ (Susceptible(committed[i]) /\ persons[i].has_been_sick) =>
                  /\ persons[i].sickness_countdown = SICKNESS_LENGTH
                  /\ Infected(persons[i])

\* C19 as amended: the countdown counts inner updates, 1 per tick for a
\* normal person and 10 per tick for a fast person; the person stays Infected
\* exactly while its countdown is above 0.
C19_CountdownCountsInnerUpdates ==
    TickDone =>
        \A i \in people :
            LET steps == IF persons[i].is_fast THEN 10 ELSE 1
            IN /\ Infected(committed[i]) =>
                     /\ persons[i].sickness_countdown =
                           committed[i].sickness_countdown - steps
                     /\ Infected(persons[i]) <=>
                           committed[i].sickness_countdown > steps
               /\ (Susceptible(committed[i]) /\ persons[i].has_been_sick) =>
                     /\ persons[i].sickness_countdown
                           \in (SICKNESS_LENGTH - steps + 1)..SICKNESS_LENGTH
                     /\ Infected(persons[i]) <=> persons[i].sickness_countdown > 0

C19_Witness ==
    /\ TickDone
    /\ SICKNESS_LENGTH = 2
    /\ \E i, j \in people :
        /\ ~persons[i].is_fast
        /\ Infected(committed[i])
        /\ Infected(persons[i])
        /\ persons[i].sickness_countdown = 1
        /\ persons[j].is_fast
        /\ Susceptible(committed[j])
        /\ Recovered(persons[j])

\* C20: in an automatic run the infected counter eventually is 0 for good
\* with no tick in progress, so the loop stops; and once the counter is 0 no
\* step raises it again.
C20_EpidemicDiesOut ==
    /\ <>[](num_of_infected_people = 0 /\ pc = "idle" /\ ~ENABLED Next)
    /\ [][num_of_infected_people = 0 => num_of_infected_people' = 0]_vars

\* The last of two people recovered in the fourth tick of an automatic run
C20_Witness ==
    /\ automatic
    /\ pc = "idle"
    /\ Len(history) = 4
    /\ history[4] = 1
    /\ num_of_infected_people = 0
    /\ \A i \in people : Recovered(persons[i])

====
